---- MODULE Spec2Model ----
(***************************************************************************)
(* Model of the quiz grader of solo-backend: QuizService                   *)
(* (src/src/services/quiz.service.ts), the request schemas of              *)
(* src/src/types/quiz.types.ts, the Quiz* tables declared in the Prisma    *)
(* schema and the status mapping of errorMiddleware.                       *)
(*                                                                         *)
(* One quiz row is modelled.  Question ids are the positions 1, 2, ... in  *)
(* the order of creation; a deleted question keeps its position so that    *)
(* an id is never handed out twice (ids are uuids in the code).            *)
(***************************************************************************)
EXTENDS Integers, Sequences, FiniteSets, TLC

\* ---------------------------------------------------------------- bounds
MaxQuestions == 2
MaxAttempts == 1

\* ------------------------------------------------------- input domains
\* Inputs of the request handlers under Spec.
PointValues == {5}
PassingScores == {0, 50}
OptionCounts == {2}
OptionIndexes == {0, 1, 2}
SelectedIndexes == {0, 1}
UserIds == {1}

\* Quiz contents graded under SpecGrade.
GradePointValues == {5, 17, 23}
GradePassingScores == {0, 50, 58}

\* An optional field the request body leaves out (undefined).
Absent == 0 - 1

QuestionIds == 1..(MaxQuestions + 1)

AnswerEntries == [questionId : QuestionIds, selectedOptionIndex : SelectedIndexes]

AnswerLists == UNION {[1..k -> AnswerEntries] : k \in 0..MaxQuestions}

VARIABLES quiz, questions, attempts, response

\* Tables and clock of the course subsystem.
VARIABLES modules, enrollments, payments, pending, notifications, now, modulesToUnlock

\* Users table, NODE_ENV and the counters of the rate limiter.
VARIABLES users, nodeEnv, rateHits

\* Course catalogue, wall clock in seconds, user accounts, the tokens handed
\* to clients, the counter of the password reset limiter, and the
\* updateQuizQuestion requests that have read their row and not yet written.
VARIABLES courses, clock, accounts, issued, resetIssued, resetUsed, resetHits, inflight

quizVars == <<quiz, questions, attempts>>

courseVars == <<modules, enrollments, payments, pending, notifications, now, modulesToUnlock>>

httpVars == <<users, nodeEnv, rateHits>>

platformVars == <<courses, clock, accounts, issued, resetIssued, resetUsed, resetHits, inflight>>

vars == <<quiz, questions, attempts, response, courseVars, httpVars, platformVars>>

\* ------------------------------------------------------------- helpers
Range(s) == {s[i] : i \in DOMAIN s}

RECURSIVE SumOver(_, _)
SumOver(f, S) ==
  IF S = {} THEN 0
  ELSE LET x == CHOOSE y \in S : TRUE IN f[x] + SumOver(f, S \ {x})

\* ------------------------------------------- IEEE-754 double arithmetic
\* A positive double is [h, m, l, exp]: the 53-bit significand is
\* h * 2^36 + m * 2^18 + l (h has 17 bits, m and l 18 bits each) and the
\* value is significand * 2^(exp - 52).

RECURSIVE NormShift(_, _)
NormShift(e, t) == IF e >= t THEN 0 ELSE 1 + NormShift(2 * e, t)

RoundNearestEven(f, roundBit, sticky) ==
  LET up == roundBit = 1 /\ (sticky \/ f.l % 2 = 1)
      l1 == IF up THEN f.l + 1 ELSE f.l
      m1 == IF l1 = 2^18 THEN f.m + 1 ELSE f.m
      h1 == IF m1 = 2^18 THEN f.h + 1 ELSE f.h
  IN  IF h1 = 2^17
        THEN [h |-> 2^16, m |-> 0, l |-> 0, exp |-> f.exp + 1]
        ELSE [h |-> h1, m |-> m1 % 2^18, l |-> l1 % 2^18, exp |-> f.exp]

\* earnedPoints / totalPoints for 0 < e <= t: long division, 52 fraction
\* bits in pieces of 16, 18 and 18 bits, then the round and sticky bits.
FloatDiv(e, t) ==
  LET k  == NormShift(e, t)
      r0 == e * 2^k - t
      c1 == (r0 * 2^16) \div t
      r1 == (r0 * 2^16) % t
      c2 == (r1 * 2^18) \div t
      r2 == (r1 * 2^18) % t
      c3 == (r2 * 2^18) \div t
      r3 == (r2 * 2^18) % t
  IN  RoundNearestEven([h |-> 2^16 + c1, m |-> c2, l |-> c3, exp |-> 0 - k],
                       (2 * r3) \div t, (2 * r3) % t # 0)

\* (...) * 100: the exact 59- or 60-bit product, rounded back to 53 bits.
FloatMul100(f) ==
  LET pl == 100 * f.l
      pm == 100 * f.m + (pl \div 2^18)
      ph == 100 * f.h + (pm \div 2^18)
      l1 == pl % 2^18
      m1 == pm % 2^18
      s  == IF ph >= 2^23 THEN 7 ELSE 6
      dropped == l1 % 2^s
  IN  RoundNearestEven([h |-> ph \div 2^s,
                        m |-> (m1 \div 2^s) + (ph % 2^s) * 2^(18 - s),
                        l |-> (l1 \div 2^s) + (m1 % 2^s) * 2^(18 - s),
                        exp |-> f.exp + s],
                       dropped \div 2^(s - 1), dropped % 2^(s - 1) # 0)

\* Math.round: floor(x + 0.5), i.e. the integer part plus the bit of
\* weight 1/2.
MathRound(f) ==
  LET int  == IF f.exp >= 0 THEN f.h \div 2^(16 - f.exp) ELSE 0
      half == IF f.exp >= -1 THEN (f.h \div 2^(15 - f.exp)) % 2 ELSE 0
  IN  int + half

\* Math.round((earnedPoints / totalPoints) * 100)
Percentage(e, t) == IF e = 0 THEN 0 ELSE MathRound(FloatMul100(FloatDiv(e, t)))

\* ------------------------------------------------------- quiz content
\* quiz.questions of getQuizById(id, true): the question rows of the quiz.
LiveIds(qs) == {i \in DOMAIN qs : qs[i].live}

\* answers.find(a => a.questionId === id): the first matching entry.
FindAnswer(answers, id) ==
  LET hits == {i \in DOMAIN answers : answers[i].questionId = id}
  IN  IF hits = {} THEN Absent
      ELSE answers[CHOOSE i \in hits : \A j \in hits : i <= j].selectedOptionIndex

TotalPoints(qs) == SumOver([i \in LiveIds(qs) |-> qs[i].points], LiveIds(qs))

CorrectIds(qs, answers) ==
  {i \in LiveIds(qs) : FindAnswer(answers, i) = qs[i].correctOptionIndex}

\* Faulty variant of EarnedPoints: points earned once per matching answer
\* entry (filter instead of find).
EarnedPoints_PerAnswer(qs, answers) ==
  SumOver([k \in DOMAIN answers |->
             IF /\ answers[k].questionId \in LiveIds(qs)
                /\ answers[k].selectedOptionIndex
                     = qs[answers[k].questionId].correctOptionIndex
               THEN qs[answers[k].questionId].points ELSE 0],
          DOMAIN answers)

EarnedPoints(qs, answers) ==
  SumOver([i \in LiveIds(qs) |-> qs[i].points], CorrectIds(qs, answers))

\* Faulty variant of calculateQuizScore: a quiz without points counts as
\* full marks.
calculateQuizScore_EmptyIsFull(qs, answers) ==
  IF TotalPoints(qs) > 0
    THEN Percentage(EarnedPoints(qs, answers), TotalPoints(qs))
    ELSE 100

calculateQuizScore(qs, answers) ==
  IF TotalPoints(qs) > 0
    THEN Percentage(EarnedPoints(qs, answers), TotalPoints(qs))
    ELSE 0

\* ------------------------------------------------------------ responses
Ok(op) == [op |-> op, status |-> 200, message |-> "ok", ids |-> <<>>]

Err(op, status, message) == [op |-> op, status |-> status, message |-> message, ids |-> <<>>]

\* No module, enrollment, payment or notification row; day 0.
InitCourseEmpty ==
  /\ modules = <<>>
  /\ enrollments = <<>>
  /\ payments = <<>>
  /\ pending = {}
  /\ notifications = <<>>
  /\ now = 0
  /\ modulesToUnlock = [evaluated |-> FALSE, pairs |-> {}]

\* No user row, production mode, no request counted yet.
InitHttpEmpty ==
  /\ users = {}
  /\ nodeEnv = "production"
  /\ rateHits = 0

\* No course, no account, no token handed out, no request in flight; second 0.
InitPlatformEmpty ==
  /\ courses = <<>>
  /\ clock = 0
  /\ accounts = <<>>
  /\ issued = {}
  /\ resetIssued = <<>>
  /\ resetUsed = {}
  /\ resetHits = 0
  /\ inflight = {}

Init ==
  /\ quiz = [state |-> "none", passingScore |-> 0]
  /\ questions = <<>>
  /\ attempts = <<>>
  /\ response = Ok("none")
  /\ InitCourseEmpty
  /\ InitPlatformEmpty
  /\ InitHttpEmpty

\* ------------------------------------------------------------- actions
\* getQuizById: findFirst({id, isDeleted: false})
QuizFound == quiz.state = "active"

\* prisma.quizQuestion.findUnique({id})
QuestionFound(id) == id \in DOMAIN questions /\ questions[id].live

\* Rows of QuizAnswer that reference the question (foreign key questionId).
AnswerRowsOf(id) ==
  {r \in UNION {attempts[i].answers : i \in DOMAIN attempts} : r.questionId = id}

createQuiz(moduleFound, passingScore) ==
  /\ quiz.state = "none"
  /\ IF ~moduleFound
       THEN /\ response' = Err("createQuiz", 404, "Module not found")
            /\ UNCHANGED quiz
       ELSE /\ quiz' = [state |-> "active", passingScore |-> passingScore]
            /\ response' = Ok("createQuiz")
  /\ UNCHANGED <<questions, attempts>>
  /\ UNCHANGED <<courseVars, httpVars, platformVars>>

updateQuiz(passingScore) ==
  /\ quiz.state # "none"
  /\ IF ~QuizFound
       THEN /\ response' = Err("updateQuiz", 404, "Quiz not found")
            /\ UNCHANGED quiz
       ELSE /\ quiz' = IF passingScore = Absent THEN quiz
                       ELSE [quiz EXCEPT !.passingScore = passingScore]
            /\ response' = Ok("updateQuiz")
  /\ UNCHANGED <<questions, attempts>>
  /\ UNCHANGED <<courseVars, httpVars, platformVars>>

deleteQuiz ==
  /\ quiz.state # "none"
  /\ IF ~QuizFound
       THEN /\ response' = Err("deleteQuiz", 404, "Quiz not found")
            /\ UNCHANGED quiz
       ELSE /\ quiz' = [quiz EXCEPT !.state = "deleted"]
            /\ response' = Ok("deleteQuiz")
  /\ UNCHANGED <<questions, attempts>>
  /\ UNCHANGED <<courseVars, httpVars, platformVars>>

createQuizQuestion(numOptions, correctOptionIndex, points) ==
  /\ Len(questions) < MaxQuestions
  /\ IF ~QuizFound
       THEN /\ response' = Err("createQuizQuestion", 404, "Quiz not found")
            /\ UNCHANGED questions
       ELSE IF correctOptionIndex < 0 \/ correctOptionIndex >= numOptions
       THEN /\ response' = Err("createQuizQuestion", 400, "Invalid correctOptionIndex")
            /\ UNCHANGED questions
       ELSE /\ questions' = Append(questions,
                 [live |-> TRUE, numOptions |-> numOptions,
                  correctOptionIndex |-> correctOptionIndex, points |-> points])
            /\ response' = Ok("createQuizQuestion")
  /\ UNCHANGED <<quiz, attempts>>
  /\ UNCHANGED <<courseVars, httpVars, platformVars>>

\* Faulty variant of updateQuizQuestion: an update of the options alone is
\* not compared with the stored correctOptionIndex.
updateQuizQuestion_OptionsUnchecked(id, numOptions, correctOptionIndex, points) ==
  /\ IF ~QuestionFound(id)
       THEN /\ response' = Err("updateQuizQuestion", 404, "Question not found")
            /\ UNCHANGED questions
       ELSE IF \/ /\ numOptions # Absent
                  /\ correctOptionIndex # Absent
                  /\ (correctOptionIndex < 0 \/ correctOptionIndex >= numOptions)
               \/ /\ correctOptionIndex # Absent
                  /\ numOptions = Absent
                  /\ (correctOptionIndex < 0
                        \/ correctOptionIndex >= questions[id].numOptions)
       THEN /\ response' = Err("updateQuizQuestion", 400, "Invalid correctOptionIndex")
            /\ UNCHANGED questions
       ELSE /\ questions' = [questions EXCEPT ![id] =
                 [live |-> TRUE,
                  numOptions |-> IF numOptions = Absent THEN @.numOptions ELSE numOptions,
                  correctOptionIndex |-> IF correctOptionIndex = Absent
                                           THEN @.correctOptionIndex ELSE correctOptionIndex,
                  points |-> IF points = Absent THEN @.points ELSE points]]
            /\ response' = Ok("updateQuizQuestion")
  /\ UNCHANGED <<quiz, attempts>>
  /\ UNCHANGED <<courseVars, httpVars, platformVars>>

\* data.options, data.correctOptionIndex and data.points are optional
\* (Absent when the body leaves them out).
updateQuizQuestion(id, numOptions, correctOptionIndex, points) ==
  /\ IF ~QuestionFound(id)
       THEN /\ response' = Err("updateQuizQuestion", 404, "Question not found")
            /\ UNCHANGED questions
       ELSE IF \/ /\ numOptions # Absent
                  /\ correctOptionIndex # Absent
                  /\ (correctOptionIndex < 0 \/ correctOptionIndex >= numOptions)
               \/ /\ numOptions # Absent
                  /\ correctOptionIndex = Absent
                  /\ questions[id].correctOptionIndex >= numOptions
               \/ /\ correctOptionIndex # Absent
                  /\ numOptions = Absent
                  /\ (correctOptionIndex < 0
                        \/ correctOptionIndex >= questions[id].numOptions)
       THEN /\ response' = Err("updateQuizQuestion", 400, "Invalid correctOptionIndex")
            /\ UNCHANGED questions
       ELSE /\ questions' = [questions EXCEPT ![id] =
                 [live |-> TRUE,
                  numOptions |-> IF numOptions = Absent THEN @.numOptions ELSE numOptions,
                  correctOptionIndex |-> IF correctOptionIndex = Absent
                                           THEN @.correctOptionIndex ELSE correctOptionIndex,
                  points |-> IF points = Absent THEN @.points ELSE points]]
            /\ response' = Ok("updateQuizQuestion")
  /\ UNCHANGED <<quiz, attempts>>
  /\ UNCHANGED <<courseVars, httpVars, platformVars>>

\* Faulty variant of deleteQuizQuestion: the answer rows of the question
\* are deleted with it (a cascading relation).
deleteQuizQuestion_Cascade(id) ==
  /\ IF ~QuestionFound(id)
       THEN /\ response' = Err("deleteQuizQuestion", 404, "Question not found")
            /\ UNCHANGED <<questions, attempts>>
       ELSE /\ questions' = [questions EXCEPT ![id].live = FALSE]
            /\ attempts' = [i \in DOMAIN attempts |->
                 [attempts[i] EXCEPT !.answers = {r \in @ : r.questionId # id}]]
            /\ response' = Ok("deleteQuizQuestion")
  /\ UNCHANGED quiz
  /\ UNCHANGED <<courseVars, httpVars, platformVars>>

deleteQuizQuestion(id) ==
  /\ IF ~QuestionFound(id)
       THEN /\ response' = Err("deleteQuizQuestion", 404, "Question not found")
            /\ UNCHANGED questions
       ELSE IF AnswerRowsOf(id) # {}
       THEN /\ response' = Err("deleteQuizQuestion", 400, "Foreign key constraint failed")
            /\ UNCHANGED questions
       ELSE /\ questions' = [questions EXCEPT ![id].live = FALSE]
            /\ response' = Ok("deleteQuizQuestion")
  /\ UNCHANGED <<quiz, attempts>>
  /\ UNCHANGED <<courseVars, httpVars, platformVars>>

\* answeredQuestionIds.filter(id => !questionIds.includes(id))
InvalidQuestionIds(qs, answers) ==
  SelectSeq([i \in DOMAIN answers |-> answers[i].questionId],
            LAMBDA id : id \notin LiveIds(qs))

\* answers.map(...) of the nested create: one QuizAnswer row per entry.
AnswerRows(qs, answers) ==
  [i \in DOMAIN answers |->
     [questionId |-> answers[i].questionId,
      selectedOptionIndex |-> answers[i].selectedOptionIndex,
      isCorrect |-> qs[answers[i].questionId].correctOptionIndex
                      = answers[i].selectedOptionIndex]]

\* @@unique([quizAttemptId, questionId]) on QuizAnswer
UniqueAnswerRows(rows) ==
  \A i, j \in DOMAIN rows : rows[i].questionId = rows[j].questionId => i = j

\* Faulty variant of Passed: an exclusive threshold.
Passed_Strict(score, passingScore) == score > passingScore

\* passed = score >= quiz.passingScore
Passed(score, passingScore) == score >= passingScore

\* Faulty variant of WriteAttempt: the attempt row is written before its
\* answer rows and stays when these fail.
WriteAttempt_NotAtomic(userId, score, passed, rows, dbFails) ==
  IF ~UniqueAnswerRows(rows) \/ dbFails
    THEN [response |-> Err("submitQuizAttempt", 500, "Internal server error"),
          created |-> <<[userId |-> userId, score |-> score, passed |-> passed,
                         answers |-> {}]>>]
    ELSE [response |-> Ok("submitQuizAttempt"),
          created |-> <<[userId |-> userId, score |-> score, passed |-> passed,
                         answers |-> Range(rows)]>>]

\* prisma.quizAttempt.create with the nested answers: one transaction, so a
\* failure stores nothing.  dbFails is a datastore failure other than the
\* constraint violation.  The result is the response and the rows created.
WriteAttempt(userId, score, passed, rows, dbFails) ==
  IF ~UniqueAnswerRows(rows)
    THEN [response |-> Err("submitQuizAttempt", 409, "Duplicate value for a unique field"),
          created |-> <<>>]
    ELSE IF dbFails
    THEN [response |-> Err("submitQuizAttempt", 500, "Internal server error"),
          created |-> <<>>]
    ELSE [response |-> Ok("submitQuizAttempt"),
          created |-> <<[userId |-> userId, score |-> score, passed |-> passed,
                         answers |-> Range(rows)]>>]

\* The checks before grading, on the stored quiz q with question rows qs:
\* the error thrown, or Ok when the submission goes on to be graded.
ValidateSubmission(q, qs, answers) ==
  IF q.state # "active"
    THEN Err("submitQuizAttempt", 404, "Quiz not found")
    ELSE IF Cardinality(LiveIds(qs)) # Len(answers)
    THEN Err("submitQuizAttempt", 400, "All questions must be answered")
    ELSE IF Len(InvalidQuestionIds(qs, answers)) > 0
    THEN [op |-> "submitQuizAttempt", status |-> 400,
          message |-> "Invalid question IDs",
          ids |-> InvalidQuestionIds(qs, answers)]
    ELSE Ok("submitQuizAttempt")

\* The whole handler: its response and the QuizAttempt rows it creates.
SubmitResult(q, qs, userId, answers, dbFails) ==
  IF ValidateSubmission(q, qs, answers).status # 200
    THEN [response |-> ValidateSubmission(q, qs, answers), created |-> <<>>]
    ELSE LET score == calculateQuizScore(qs, answers)
         IN  WriteAttempt(userId, score, Passed(score, q.passingScore),
                          AnswerRows(qs, answers), dbFails)

submitQuizAttempt(userId, answers, dbFails) ==
  LET r == SubmitResult(quiz, questions, userId, answers, dbFails)
  IN  /\ Len(attempts) + Len(r.created) <= MaxAttempts
      /\ attempts' = attempts \o r.created
      /\ response' = r.response
      /\ UNCHANGED <<quiz, questions>>
      /\ UNCHANGED <<courseVars, httpVars, platformVars>>

Next ==
  \/ \E m \in BOOLEAN, ps \in PassingScores : createQuiz(m, ps)
  \/ \E ps \in PassingScores \cup {Absent} : updateQuiz(ps)
  \/ deleteQuiz
  \/ \E n \in OptionCounts, c \in OptionIndexes, p \in PointValues :
       createQuizQuestion(n, c, p)
  \/ \E id \in QuestionIds, n \in OptionCounts \cup {Absent},
        c \in OptionIndexes \cup {Absent}, p \in PointValues \cup {Absent} :
       updateQuizQuestion(id, n, c, p)
  \/ \E id \in QuestionIds : deleteQuizQuestion(id)
  \/ \E u \in UserIds, a \in AnswerLists, f \in BOOLEAN : submitQuizAttempt(u, a, f)

Spec == Init /\ [][Next]_vars

\* ------------------------------------------------ grading specification
\* The states grading starts from: an existing quiz with one to
\* MaxQuestions questions and no attempt yet.
GradeQuestions ==
  [live : {TRUE}, numOptions : OptionCounts, correctOptionIndex : SelectedIndexes,
   points : GradePointValues]

InitGrade ==
  /\ quiz \in [state : {"active"}, passingScore : GradePassingScores]
  /\ questions \in UNION {[1..k -> GradeQuestions] : k \in 1..MaxQuestions}
  /\ attempts = <<>>
  /\ response = Ok("none")
  /\ InitCourseEmpty
  /\ InitPlatformEmpty
  /\ InitHttpEmpty

NextGrade ==
  \E u \in UserIds, a \in AnswerLists, f \in BOOLEAN : submitQuizAttempt(u, a, f)

SpecGrade == InitGrade /\ [][NextGrade]_vars

\* --------------------------------------------------------------- claims
AnsweredIds(answers) == {answers[i].questionId : i \in DOMAIN answers}

\* The questions of the quiz that the list leaves out.
MissingIds(qs, answers) == LiveIds(qs) \ AnsweredIds(answers)

\* The questionIds of the list that are no question of the quiz.
ExtraneousIds(qs, answers) == AnsweredIds(answers) \ LiveIds(qs)

\* Exactly one entry per question of the quiz.
OnePerQuestion(qs, answers) ==
  /\ \A i, j \in DOMAIN answers : answers[i].questionId = answers[j].questionId => i = j
  /\ AnsweredIds(answers) = LiveIds(qs)

\* round-half-up of 100 * e / t, in exact integer arithmetic
RoundHalfUpPercent(e, t) == (200 * e + t) \div (2 * t)

\* C1: for an existing quiz, every answers list that omits a question of
\* the quiz or contains a questionId that is no question of the quiz is
\* answered with a 400 validation error and creates no attempt.
C1_BadListRejectedWith400 ==
  [][\A u \in UserIds, a \in AnswerLists, f \in BOOLEAN :
       ( /\ QuizFound
         /\ MissingIds(questions, a) # {} \/ ExtraneousIds(questions, a) # {}
         /\ submitQuizAttempt(u, a, f) )
       => (response'.status = 400 /\ attempts' = attempts)]_vars

\* C2: every submission that passes the checks of submitQuizAttempt and is
\* handed to grading and persistence has exactly one answer entry per
\* question of the quiz.
C2_AcceptedOnePerQuestion ==
  [][\A u \in UserIds, a \in AnswerLists, f \in BOOLEAN :
       ( /\ ValidateSubmission(quiz, questions, a).status = 200
         /\ submitQuizAttempt(u, a, f) )
       => OnePerQuestion(questions, a)]_vars

\* C3: with totalPoints > 0, the score of a one-entry-per-question list is
\* round-half-up of 100 * earnedPoints / totalPoints, earnedPoints being the
\* points of the questions answered with their correctOptionIndex.
C3_ScoreIsRoundHalfUp ==
  [][\A u \in UserIds, a \in AnswerLists :
       ( /\ TotalPoints(questions) > 0
         /\ OnePerQuestion(questions, a)
         /\ submitQuizAttempt(u, a, FALSE)
         /\ Len(attempts') = Len(attempts) + 1 )
       => attempts'[Len(attempts')].score =
            RoundHalfUpPercent(
              SumOver([i \in LiveIds(questions) |-> questions[i].points],
                      {i \in LiveIds(questions) :
                         \E k \in DOMAIN a :
                           /\ a[k].questionId = i
                           /\ a[k].selectedOptionIndex
                                = questions[i].correctOptionIndex}),
              TotalPoints(questions))]_vars

\* C4: an attempt is stored with passed = TRUE exactly when its score is at
\* least the quiz's passingScore; questions worth 5 and 5 points with
\* passingScore 50 and only the first answered correctly give score 50 and
\* passed = TRUE.
C4_PassedIffScoreAtLeastPassingScore ==
  \A u \in UserIds, a \in AnswerLists :
    LET r == SubmitResult(quiz, questions, u, a, FALSE)
    IN  r.created # <<>> =>
          /\ r.created[1].passed <=> (r.created[1].score >= quiz.passingScore)
          /\ ( /\ quiz.passingScore = 50
               /\ Len(questions) = 2
               /\ questions[1].points = 5 /\ questions[2].points = 5
               /\ CorrectIds(questions, a) = {1} )
             => (r.created[1].score = 50 /\ r.created[1].passed)

C4_Witness ==
  /\ quiz.passingScore = 50
  /\ Len(questions) = 2
  /\ questions[1].points = 5 /\ questions[2].points = 5
  /\ Len(attempts) = 1
  /\ attempts[1].score = 50 /\ attempts[1].passed
  /\ {r.questionId : r \in {x \in attempts[1].answers : x.isCorrect}} = {1}

\* C5: with totalPoints > 0, grading any answers list gives an integer
\* score from 0 to 100.
C5_ScoreWithinPercentRange ==
  TotalPoints(questions) > 0 =>
    \A a \in AnswerLists : calculateQuizScore(questions, a) \in 0..100

C5_Witness ==
  /\ TotalPoints(questions) > 0
  /\ \E i \in DOMAIN attempts : attempts[i].score > 0 /\ attempts[i].score < 100

\* C7: a quiz whose questions' points sum to 0 is graded with score 0, and
\* the attempt passes only if the passingScore is 0.
C7_ZeroTotalScoresZero ==
  TotalPoints(questions) = 0 =>
    \A u \in UserIds, a \in AnswerLists :
      /\ calculateQuizScore(questions, a) = 0
      /\ LET r == SubmitResult(quiz, questions, u, a, FALSE)
         IN  r.created # <<>> =>
               /\ r.created[1].score = 0
               /\ r.created[1].passed <=> (quiz.passingScore = 0)

C7_Witness ==
  /\ response.op = "submitQuizAttempt" /\ response.status = 200
  /\ TotalPoints(questions) = 0
  /\ quiz.passingScore = 0
  /\ \E i \in DOMAIN attempts :
       attempts[i].answers = {} /\ attempts[i].score = 0 /\ attempts[i].passed

\* A step of submitQuizAttempt that stores an attempt.
AttemptStored == Len(attempts') = Len(attempts) + 1

\* C8 as stated: on a quiz with no questions, whatever its passingScore,
\* no call stores an attempt with passed = TRUE.
C8_EmptyQuizNeverPassed ==
  [][(AttemptStored /\ LiveIds(questions) = {})
       => ~attempts'[Len(attempts')].passed]_vars

\* C8 amended: on a quiz with no questions an attempt is stored with
\* passed = TRUE only if the passingScore is 0, and with passingScore 0 every
\* attempt stored for it has passed = TRUE.
C8_EmptyQuizPassedOnlyAtZero ==
  [][(AttemptStored /\ LiveIds(questions) = {})
       => (attempts'[Len(attempts')].passed <=> quiz.passingScore = 0)]_vars

C8_Witness ==
  /\ response.op = "submitQuizAttempt" /\ response.status = 200
  /\ LiveIds(questions) = {}
  /\ quiz.passingScore = 50
  /\ \E i \in DOMAIN attempts : attempts[i].answers = {} /\ ~attempts[i].passed

\* C9: a 400 for an incomplete submission or one with foreign questions
\* names the missing question ids and the extraneous question ids.
C9_ErrorNamesOffendingIds ==
  [][\A u \in UserIds, a \in AnswerLists, f \in BOOLEAN :
       ( /\ QuizFound
         /\ MissingIds(questions, a) # {} \/ ExtraneousIds(questions, a) # {}
         /\ submitQuizAttempt(u, a, f)
         /\ response'.status = 400 )
       => /\ MissingIds(questions, a) \subseteq Range(response'.ids)
          /\ ExtraneousIds(questions, a) \subseteq Range(response'.ids)]_vars

getQuizAttemptById(atts, id) ==
  IF id \in DOMAIN atts
    THEN [status |-> 200, score |-> atts[id].score, passed |-> atts[id].passed,
          answers |-> atts[id].answers]
    ELSE [status |-> 404, score |-> 0, passed |-> FALSE, answers |-> {}]

MaxDay == 8
MaxNotifications == 2

ModuleIds == {1}
CourseIds == {1}
ModuleStatuses == {"DRAFT", "ACTIVE"}
DurationValues == {2, 7}
ExpiryValues == {3, 30}

\* ModuleService.getModuleById: findFirst({id, isDeleted: false})
ModuleFound(id) == id \in DOMAIN modules /\ ~modules[id].isDeleted

\* contentCount === 0 && quizCount === 0 is the one reason not to be ready.
isReadyToActivate(id) == modules[id].hasContent

\* Rows created by sendModuleUnlockNotifications: one CONTENT_UNLOCK row for
\* every enrollment of the module's course that has isActive = true.
sendModuleUnlockNotifications(id) ==
  LET selected == SelectSeq(enrollments,
                    LAMBDA e : e.courseId = modules[id].courseId /\ e.isActive)
  IN  [k \in 1..Len(selected) |->
         [userId |-> selected[k].userId, moduleId |-> id, type |-> "CONTENT_UNLOCK"]]

\* PATCH /modules/:id/status: ModuleService.updateStatus, then the
\* notifications when the requested status is ACTIVE.
updateModuleStatus(id, status) ==
  /\ IF ~ModuleFound(id)
       THEN /\ response' = Err("updateModuleStatus", 404, "Module not found")
            /\ UNCHANGED <<modules, notifications>>
       ELSE IF status = "ACTIVE" /\ modules[id].status # "ACTIVE" /\ ~isReadyToActivate(id)
       THEN /\ response' = Err("updateModuleStatus", 400, "Module not ready to be activated")
            /\ UNCHANGED <<modules, notifications>>
       ELSE /\ modules' = [modules EXCEPT ![id].status = status]
            /\ notifications' = IF status = "ACTIVE"
                                  THEN notifications \o sendModuleUnlockNotifications(id)
                                  ELSE notifications
            /\ response' = Ok("updateModuleStatus")
  /\ Len(notifications') <= MaxNotifications
  /\ UNCHANGED <<enrollments, payments, pending, now, modulesToUnlock>>
  /\ UNCHANGED <<quizVars, httpVars, platformVars>>

\* DELETE /modules/:id: soft delete.
deleteModule(id) ==
  /\ id \in DOMAIN modules
  /\ modules' = [modules EXCEPT ![id].isDeleted = TRUE]
  /\ response' = Ok("deleteModule")
  /\ UNCHANGED <<enrollments, payments, pending, notifications, now, modulesToUnlock>>
  /\ UNCHANGED <<quizVars, httpVars, platformVars>>

\* where: {isActive: true}
ActiveEnrollments == {i \in DOMAIN enrollments : enrollments[i].isActive}

\* Faulty variant of UnlockCandidates: the status filter is left out.
UnlockCandidates_AnyStatus(courseId) ==
  {m \in DOMAIN modules : modules[m].courseId = courseId /\ ~modules[m].isDeleted}

\* course.modules where {isDeleted: false, status: ACTIVE}
UnlockCandidates(courseId) ==
  {m \in DOMAIN modules :
     /\ modules[m].courseId = courseId
     /\ ~modules[m].isDeleted
     /\ modules[m].status = "ACTIVE"}

\* Faulty variant of isUnlocked: the unlock day itself still counts as locked.
isUnlocked_DayLate(e, m, t) ==
  /\ t > e.enrollmentDate + m.durationInDays
  /\ ~(t > e.expiryDate)

\* unlockedAt = enrollmentDate + durationInDays; unlocked from that day on,
\* and locked again once the expiry date has passed.
isUnlocked(e, m, t) ==
  /\ t >= e.enrollmentDate + m.durationInDays
  /\ ~(t > e.expiryDate)

\* The (user, module) pairs getModulesToUnlock reports on day t.
ModulesToUnlock(t) ==
  {<<enrollments[i].userId, m>> : <<i, m>> \in
     {p \in ActiveEnrollments \X DOMAIN modules :
        /\ p[2] \in UnlockCandidates(enrollments[p[1]].courseId)
        /\ isUnlocked(enrollments[p[1]], modules[p[2]], t)}}

getModulesToUnlock ==
  /\ modulesToUnlock' = [evaluated |-> TRUE, pairs |-> ModulesToUnlock(now)]
  /\ UNCHANGED <<modules, enrollments, payments, pending, notifications, now>>
  /\ UNCHANGED <<quizVars, httpVars, platformVars, response>>

\* A day passes.
Tick ==
  /\ now < MaxDay
  /\ now' = now + 1
  /\ UNCHANGED <<modules, enrollments, payments, pending, notifications, modulesToUnlock>>
  /\ UNCHANGED <<quizVars, httpVars, platformVars, response>>

\* No quiz row.
InitQuizEmpty ==
  /\ quiz = [state |-> "none", passingScore |-> 0]
  /\ questions = <<>>
  /\ attempts = <<>>

\* The states unlock evaluation starts from: one module of one course and
\* one enrollment of that course made on day 0.
InitUnlock ==
  /\ modules \in [ModuleIds ->
       [courseId : CourseIds, status : ModuleStatuses, isDeleted : {FALSE},
        durationInDays : DurationValues, hasContent : BOOLEAN]]
  /\ enrollments \in [1..1 ->
       [userId : UserIds, courseId : CourseIds, enrollmentDate : {0},
        expiryDate : ExpiryValues, isActive : BOOLEAN]]
  /\ payments = <<>>
  /\ pending = {}
  /\ notifications = <<>>
  /\ now = 0
  /\ modulesToUnlock = [evaluated |-> FALSE, pairs |-> {}]
  /\ InitQuizEmpty
  /\ InitPlatformEmpty
  /\ InitHttpEmpty
  /\ response = Ok("none")

NextUnlock ==
  \/ \E id \in ModuleIds, st \in ModuleStatuses : updateModuleStatus(id, st)
  \/ \E id \in ModuleIds : deleteModule(id)
  \/ getModulesToUnlock
  \/ Tick

SpecUnlock == InitUnlock /\ [][NextUnlock]_vars

\* C12: for an enrollment that is active and not expired and a module of
\* its course that is ACTIVE (and still a row of the course, not
\* soft-deleted), the module is reported unlocked on day now exactly when
\* now >= enrollmentDate + durationInDays; with enrollmentDate 0 and
\* durationInDays 7 that is locked on day 6 and unlocked on day 7.
C12_UnlockedIffDurationElapsed ==
  \A i \in DOMAIN enrollments, m \in DOMAIN modules :
    (/\ enrollments[i].isActive
     /\ now <= enrollments[i].expiryDate
     /\ modules[m].courseId = enrollments[i].courseId
     /\ modules[m].status = "ACTIVE"
     /\ ~modules[m].isDeleted)
    => /\ <<enrollments[i].userId, m>> \in ModulesToUnlock(now)
          <=> now >= enrollments[i].enrollmentDate + modules[m].durationInDays
       /\ (enrollments[i].enrollmentDate = 0 /\ modules[m].durationInDays = 7)
          => /\ now = 6 => <<enrollments[i].userId, m>> \notin ModulesToUnlock(now)
             /\ now = 7 => <<enrollments[i].userId, m>> \in ModulesToUnlock(now)

\* Day 7 of an enrollment made on day 0: the evaluation has just reported
\* the module with durationInDays 7.
C12_Witness ==
  /\ now = 7
  /\ modulesToUnlock.evaluated
  /\ modulesToUnlock.pairs = ModulesToUnlock(now)
  /\ \E i \in DOMAIN enrollments, m \in DOMAIN modules :
       /\ enrollments[i].enrollmentDate = 0
       /\ modules[m].durationInDays = 7
       /\ <<enrollments[i].userId, m>> \in modulesToUnlock.pairs

\* The enrollment is switched off or its expiry date has passed.
InactiveOrExpired(i) == ~enrollments[i].isActive \/ now > enrollments[i].expiryDate

\* C13: an enrollment with isActive = false or with now > expiryDate has
\* every module locked: no module of its course is reported for it, and no
\* step creates an unlock notification for it.
C13_InactiveOrExpiredNeverSelected ==
  [][\A i \in DOMAIN enrollments :
       InactiveOrExpired(i) =>
         /\ \A m \in DOMAIN modules :
              modules[m].courseId = enrollments[i].courseId
                => <<enrollments[i].userId, m>> \notin ModulesToUnlock(now)
         /\ \A k \in DOMAIN notifications' \ DOMAIN notifications :
              ~(/\ notifications'[k].userId = enrollments[i].userId
                /\ modules[notifications'[k].moduleId].courseId = enrollments[i].courseId)
    ]_vars

\* C14: a module that is not ACTIVE, or that is soft-deleted, is in no
\* report of unlocked modules, whatever the enrollment and the day.
C14_OnlyActiveModulesReported ==
  /\ \A p \in ModulesToUnlock(now) :
       modules[p[2]].status = "ACTIVE" /\ ~modules[p[2]].isDeleted
  /\ \A m \in DOMAIN modules :
       (modules[m].status # "ACTIVE" \/ modules[m].isDeleted)
         => \A u \in UserIds : <<u, m>> \notin ModulesToUnlock(now)

\* An evaluation has just reported nothing although an active enrollment
\* is past the unlock day of a module: the module is DRAFT or soft-deleted.
C14_Witness ==
  /\ modulesToUnlock.evaluated
  /\ modulesToUnlock.pairs = ModulesToUnlock(now)
  /\ modulesToUnlock.pairs = {}
  /\ \E i \in ActiveEnrollments, m \in DOMAIN modules :
       /\ modules[m].status # "ACTIVE" \/ modules[m].isDeleted
       /\ isUnlocked(enrollments[i], modules[m], now)

\* CONTENT_UNLOCK rows of one user for one module.
UnlockNotificationsOf(u, m) ==
  {k \in DOMAIN notifications :
     /\ notifications[k].type = "CONTENT_UNLOCK"
     /\ notifications[k].userId = u
     /\ notifications[k].moduleId = m}

\* C15: for every user and module there is at most one CONTENT_UNLOCK
\* notification, whatever status updates and evaluations have happened.
C15_AtMostOneUnlockNotification ==
  \A u \in UserIds, m \in ModuleIds : Cardinality(UnlockNotificationsOf(u, m)) <= 1

\* -------------------------------------------------- enrollment lifecycle
\* Requests in flight at once, and enrollment rows the table may hold.
MaxPending == 2
MaxEnrollments == 2

PaymentStatuses == {"PENDING", "COMPLETED", "FAILED", "REFUNDED"}

\* Bodies accepted by validate(createEnrollmentSchema).
CreateEnrollmentRequests ==
  [req : 1..MaxPending, userId : UserIds, courseId : CourseIds,
   expiryDate : ExpiryValues, isActive : BOOLEAN]

\* POST /enrollments passes authentication and validation; the handler
\* has not written yet.
receiveCreateEnrollment(r) ==
  /\ \A q \in pending : q.req # r.req
  /\ pending' = pending \cup {r}
  /\ UNCHANGED <<modules, enrollments, payments, notifications, now, modulesToUnlock>>
  /\ UNCHANGED <<quizVars, httpVars, platformVars, response>>

\* Faulty variant of EnrollmentUniqueViolation: the table has no unique
\* constraint on the pair.
EnrollmentUniqueViolation_NoConstraint(userId, courseId) == FALSE

\* @@unique on the user and the enrolled unit of UserCourseEnrollment.
EnrollmentUniqueViolation(userId, courseId) ==
  \E i \in DOMAIN enrollments :
    enrollments[i].userId = userId /\ enrollments[i].courseId = courseId

\* The handler's insert of the enrollment and of its payment; a violated
\* unique constraint is answered by errorMiddleware (P2002).
createEnrollment(r, paymentStatus) ==
  /\ r \in pending
  /\ pending' = pending \ {r}
  /\ IF EnrollmentUniqueViolation(r.userId, r.courseId)
       THEN /\ response' = Err("createEnrollment", 409, "Duplicate value for a unique field")
            /\ UNCHANGED <<enrollments, payments>>
       ELSE /\ Len(enrollments) < MaxEnrollments
            /\ enrollments' = Append(enrollments,
                 [userId |-> r.userId, courseId |-> r.courseId, enrollmentDate |-> now,
                  expiryDate |-> r.expiryDate, isActive |-> r.isActive])
            /\ payments' = Append(payments, paymentStatus)
            /\ response' = Ok("createEnrollment")
  /\ UNCHANGED <<modules, notifications, now, modulesToUnlock>>
  /\ UNCHANGED <<quizVars, httpVars, platformVars>>

\* PATCH /enrollments/:id/status with isActive and an optional expiryDate.
updateEnrollmentStatus(id, isActive, expiryDate) ==
  /\ IF id \notin DOMAIN enrollments
       THEN /\ response' = Err("updateEnrollmentStatus", 404, "Enrollment not found")
            /\ UNCHANGED enrollments
       ELSE /\ enrollments' = [enrollments EXCEPT ![id] =
                 [@ EXCEPT !.isActive = isActive,
                           !.expiryDate = IF expiryDate = Absent THEN @ ELSE expiryDate]]
            /\ response' = Ok("updateEnrollmentStatus")
  /\ UNCHANGED <<modules, payments, pending, notifications, now, modulesToUnlock>>
  /\ UNCHANGED <<quizVars, httpVars, platformVars>>

\* Faulty variant of updatePaymentStatus: a refund changes the payment only.
updatePaymentStatus_PaymentOnly(id, status) ==
  /\ id \in DOMAIN payments
  /\ payments[id] # status
  /\ payments' = [payments EXCEPT ![id] = status]
  /\ response' = Ok("updatePaymentStatus")
  /\ UNCHANGED <<modules, enrollments, pending, notifications, now, modulesToUnlock>>
  /\ UNCHANGED <<quizVars, httpVars, platformVars>>

\* The payment of an enrollment gets a new status; a refund deactivates
\* the enrollment.
updatePaymentStatus(id, status) ==
  /\ id \in DOMAIN payments
  /\ payments[id] # status
  /\ payments' = [payments EXCEPT ![id] = status]
  /\ enrollments' = IF status = "REFUNDED"
                      THEN [enrollments EXCEPT ![id].isActive = FALSE]
                      ELSE enrollments
  /\ response' = Ok("updatePaymentStatus")
  /\ UNCHANGED <<modules, pending, notifications, now, modulesToUnlock>>
  /\ UNCHANGED <<quizVars, httpVars, platformVars>>

\* Active enrollments whose expiry date has passed.
ExpiredActive == {i \in DOMAIN enrollments : enrollments[i].isActive /\ now > enrollments[i].expiryDate}

\* Expiry: the enrollments whose expiry date has passed are deactivated.
expireEnrollments ==
  /\ ExpiredActive # {}
  /\ enrollments' = [i \in DOMAIN enrollments |->
       IF i \in ExpiredActive THEN [enrollments[i] EXCEPT !.isActive = FALSE]
       ELSE enrollments[i]]
  /\ response' = Ok("expireEnrollments")
  /\ UNCHANGED <<modules, payments, pending, notifications, now, modulesToUnlock>>
  /\ UNCHANGED <<quizVars, httpVars, platformVars>>

InitEnroll ==
  /\ InitCourseEmpty
  /\ InitPlatformEmpty
  /\ InitQuizEmpty
  /\ InitHttpEmpty
  /\ response = Ok("none")

NextEnroll ==
  \/ \E r \in CreateEnrollmentRequests : receiveCreateEnrollment(r)
  \/ \E r \in CreateEnrollmentRequests, st \in {"PENDING", "COMPLETED"} : createEnrollment(r, st)
  \/ \E id \in 1..MaxEnrollments, a \in BOOLEAN, x \in ExpiryValues \cup {Absent} :
       updateEnrollmentStatus(id, a, x)
  \/ \E id \in 1..MaxEnrollments, st \in PaymentStatuses : updatePaymentStatus(id, st)
  \/ expireEnrollments
  \/ Tick

SpecEnroll == InitEnroll /\ [][NextEnroll]_vars

\* Expiry is not put off for ever.
SpecEnrollFair == SpecEnroll /\ WF_vars(expireEnrollments)

\* Active enrollment rows of one user for one course.
ActiveEnrollmentsOf(u, c) ==
  {i \in DOMAIN enrollments :
     enrollments[i].userId = u /\ enrollments[i].courseId = c /\ enrollments[i].isActive}

RefundedNow(i) ==
  /\ i \in DOMAIN payments
  /\ payments[i] # "REFUNDED"
  /\ payments'[i] = "REFUNDED"

\* Enrollment i goes from inactive to active in this step.
ReactivatedNow(i) ==
  /\ i \in DOMAIN enrollments
  /\ ~enrollments[i].isActive
  /\ enrollments'[i].isActive

\* Enrollment i exists and its expiry date has passed.
IsExpired(i) == i \in DOMAIN enrollments /\ now > enrollments[i].expiryDate

\* Enrollment i exists and is active.
IsActive(i) == i \in DOMAIN enrollments /\ enrollments[i].isActive

Emails == {"a@example.com", "b@example.com"}
NodeEnvs == {"development", "production", "test"}
ErrorTexts == {"connect ECONNREFUSED 10.0.0.5:5432", "AccessDenied: arn:aws:s3:::solopreneur-content"}

\* authRateLimiter: 5 requests per window.
AuthRateLimitMax == 5

\* Messages are lists of parts: a template literal keeps its ${...} part.
GenericMessage == <<"Internal server error">>

\* new ApiError(message, statusCode)
ApiError(message, statusCode) ==
  [type |-> "ApiError", statusCode |-> statusCode, code |-> "", name |-> "ApiError",
   message |-> message]

\* A PrismaClientKnownRequestError with its code.
PrismaError(code, text) ==
  [type |-> "Prisma", statusCode |-> 0, code |-> code, name |-> "PrismaClientKnownRequestError",
   message |-> <<text>>]

\* Any other Error object with its name.
PlainError(name, text) ==
  [type |-> "Error", statusCode |-> 0, code |-> "", name |-> name, message |-> <<text>>]

\* errorMiddleware: status and message sent for an error passed to next().
errorMiddleware(err, env) ==
  IF err.type = "ApiError"
    THEN [status |-> err.statusCode, message |-> err.message]
  ELSE IF err.type = "Prisma" /\ err.code = "P2002"
    THEN [status |-> 409, message |-> <<"Duplicate value for a unique field">>]
  ELSE IF err.type = "Prisma" /\ err.code = "P2025"
    THEN [status |-> 404, message |-> <<"Record not found">>]
  ELSE IF err.type = "Prisma" /\ err.code = "P2003"
    THEN [status |-> 400, message |-> <<"Foreign key constraint failed">>]
  ELSE IF err.type = "Prisma" /\ err.code = "P2016"
    THEN [status |-> 404, message |-> <<"Record not found or no permissions">>]
  ELSE IF err.name = "ValidationError"
    THEN [status |-> 400, message |-> <<"Validation error">>]
  ELSE IF err.name = "JsonWebTokenError"
    THEN [status |-> 401, message |-> <<"Invalid token">>]
  ELSE IF err.name = "TokenExpiredError"
    THEN [status |-> 401, message |-> <<"Token expired">>]
  ELSE [status |-> 500,
        message |-> IF env = "development" THEN err.message ELSE GenericMessage]

\* The response to a request that succeeded.
Success(op, request, status) ==
  [op |-> op, request |-> request, class |-> "none", status |-> status, message |-> <<"ok">>]

\* The response errorMiddleware sends for err; class is the kind of failure
\* the request ran into.
Failure(op, request, class, err) ==
  LET sent == errorMiddleware(err, nodeEnv)
  IN  [op |-> op, request |-> request, class |-> class, status |-> sent.status,
       message |-> sent.message]

\* skip: config.env === 'test'
RateLimitSkipped == nodeEnv = "test"

\* The counter of the client's window after one more request; counting
\* stops one above the limit, from where every request is refused alike.
CountRequest(h) == IF h <= AuthRateLimitMax THEN h + 1 ELSE h

\* Faulty variant of RateLimited: the request that reaches the limit is
\* refused already.
RateLimited_AtMax(h) == h >= AuthRateLimitMax

\* A request is refused once the counter, this request included, is above max.
RateLimited(h) == h > AuthRateLimitMax

\* The handler of the limiter: ApiResponse.error(res, message, 429).
TooManyRequests(op, request) ==
  [op |-> op, request |-> request, class |-> "rate", status |-> 429,
   message |-> <<"Too many authentication attempts, please try again later.">>]

\* What the register handler answers once the limiter has let the request
\* through; valid is the verdict of validate(registerSchema).
registerOutcome(email, valid) ==
  IF ~valid
    THEN Failure("register", <<email, valid>>, "validation",
                 ApiError(<<"Validation error">>, 400))
  ELSE IF email \in users
    THEN Failure("register", <<email, valid>>, "conflict",
                 ApiError(<<"User with this email already exists">>, 400))
  ELSE Success("register", <<email, valid>>, 201)

\* POST /auth/register: authRateLimiter, validate(registerSchema), register.
register(email, valid) ==
  LET h == IF RateLimitSkipped THEN rateHits ELSE CountRequest(rateHits)
  IN  /\ rateHits' = h
      /\ IF ~RateLimitSkipped /\ RateLimited(h)
           THEN /\ response' = TooManyRequests("register", <<email, valid>>)
                /\ UNCHANGED users
           ELSE /\ response' = registerOutcome(email, valid)
                /\ users' = IF valid THEN users \cup {email} ELSE users
      /\ UNCHANGED nodeEnv
      /\ UNCHANGED <<quizVars, courseVars, platformVars>>

\* What the login handler answers once the limiter has let the request
\* through; passwordValid is the verdict of comparePassword.
loginOutcome(email, passwordValid) ==
  IF email \notin users \/ ~passwordValid
    THEN Failure("login", <<email, passwordValid>>, "authentication",
                 ApiError(<<"Invalid email or password">>, 401))
  ELSE Success("login", <<email, passwordValid>>, 200)

\* POST /auth/login: authRateLimiter, validate(loginSchema), login.
login(email, passwordValid) ==
  LET h == IF RateLimitSkipped THEN rateHits ELSE CountRequest(rateHits)
  IN  /\ rateHits' = h
      /\ response' = IF ~RateLimitSkipped /\ RateLimited(h)
                       THEN TooManyRequests("login", <<email, passwordValid>>)
                       ELSE loginOutcome(email, passwordValid)
      /\ UNCHANGED <<users, nodeEnv>>
      /\ UNCHANGED <<quizVars, courseVars, platformVars>>

\* The window of the limiter ends: the counter starts again.
rateLimitWindowEnds ==
  /\ rateHits > 0
  /\ rateHits' = 0
  /\ UNCHANGED <<users, nodeEnv, response>>
  /\ UNCHANGED <<quizVars, courseVars, platformVars>>

\* authenticate, then authorize(roles), in front of a protected route.
protectedRequest(authenticated, authorized) ==
  /\ response' =
       IF ~authenticated
         THEN Failure("protectedRequest", <<authenticated, authorized>>, "authentication",
                      ApiError(<<"Authentication required">>, 401))
       ELSE IF ~authorized
         THEN Failure("protectedRequest", <<authenticated, authorized>>, "authorization",
                      ApiError(<<"Not authorized to access this resource">>, 403))
       ELSE Success("protectedRequest", <<authenticated, authorized>>, 200)
  /\ UNCHANGED httpVars
  /\ UNCHANGED <<quizVars, courseVars, platformVars>>

\* AwsService.uploadFile: a failure of s3.upload is caught and thrown again
\* as an ApiError whose message holds the text of the failure.
uploadFileError(text) == ApiError(<<"Failed to upload file: ", text>>, 500)

\* An upload request; the handler passes the error of uploadFile to next().
uploadFile(fails, text) ==
  /\ response' = IF fails
                   THEN Failure("uploadFile", <<fails, text>>, "unexpected", uploadFileError(text))
                   ELSE Success("uploadFile", <<fails, text>>, 200)
  /\ UNCHANGED httpVars
  /\ UNCHANGED <<quizVars, courseVars, platformVars>>

\* NotificationService.sendNotification returns the promise of
\* prisma.notification.create without awaiting it, so its rejection does not
\* pass through the catch block: the caller gets the datastore's error as is.
sendNotificationError(err) == err

\* Failures a handler passes to next(): the class of the failure and the
\* error object.
FailingCalls ==
  UNION {
    { [class |-> "conflict", err |-> PrismaError("P2002", t)],
      [class |-> "notfound", err |-> PrismaError("P2025", t)],
      [class |-> "unexpected", err |-> PlainError("Error", t)],
      [class |-> "unexpected", err |-> sendNotificationError(PlainError("PrismaClientInitializationError", t))]
    } : t \in ErrorTexts }
  \cup
    { [class |-> "notfound", err |-> ApiError(<<"Module not found">>, 404)],
      [class |-> "authentication", err |-> PlainError("JsonWebTokenError", "jwt malformed")],
      [class |-> "authentication", err |-> PlainError("TokenExpiredError", "jwt expired")],
      [class |-> "validation", err |-> PlainError("ValidationError", "invalid")] }

\* A request whose handler fails: catch (error) { next(error) }.
failingRequest(call) ==
  /\ response' = Failure("failingRequest", call.err.message, call.class, call.err)
  /\ UNCHANGED httpVars
  /\ UNCHANGED <<quizVars, courseVars, platformVars>>

InitHttp ==
  /\ users = {}
  /\ nodeEnv \in NodeEnvs
  /\ rateHits = 0
  /\ response = Success("none", <<>>, 200)
  /\ InitQuizEmpty
  /\ InitCourseEmpty
  /\ InitPlatformEmpty

NextHttp ==
  \/ \E e \in Emails, v \in BOOLEAN : register(e, v)
  \/ \E e \in Emails, v \in BOOLEAN : login(e, v)
  \/ rateLimitWindowEnds
  \/ \E a \in BOOLEAN, z \in BOOLEAN : protectedRequest(a, z)
  \/ \E f \in BOOLEAN, t \in ErrorTexts : uploadFile(f, t)
  \/ \E call \in FailingCalls : failingRequest(call)

SpecHttp == InitHttp /\ [][NextHttp]_vars

\* The status the taxonomy gives each class of failure.
ExpectedStatus ==
  [validation |-> 400, authentication |-> 401, authorization |-> 403,
   notfound |-> 404, conflict |-> 409, unexpected |-> 500]

\* C18: a failing request is answered with the status of its class:
\* validation 400, authentication 401, authorization 403, not found 404,
\* duplicate conflict 409 (registering an existing e-mail included),
\* anything else 500.
C18_StatusFollowsErrorClass ==
  response.class \in DOMAIN ExpectedStatus => response.status = ExpectedStatus[response.class]

\* C19: outside development mode the message sent for an unexpected
\* datastore or storage failure is the generic one, whatever the text of
\* the underlying error.
C19_GenericMessageOutsideDevelopment ==
  (nodeEnv # "development" /\ response.class = "unexpected")
    => response.message = GenericMessage

\* Two login requests in a row with the same body and the same users table.
RepeatedLogin ==
  /\ response.op = "login"
  /\ response'.op = "login"
  /\ response'.request = response.request
  /\ users' = users

MaxModules == 1

\* A JSON null in a request body or a NULL column.
Null == 0 - 2

\* Values a body can carry in durationInDays: nothing, an integer, a number
\* that is not an integer.
DurationInputs ==
  [kind : {"undefined"}, value : {0}]
    \cup [kind : {"int"}, value : {0 - 1, 0, 2, 7}]
    \cup [kind : {"fraction"}, value : {2}]

\* Values a body can carry in price, status and isStandaloneCourse.
PriceInputs == {Absent, Null, 0, 10}
StatusInputs == {"undefined", "DRAFT", "ACTIVE"}
StandaloneInputs == {"undefined", "true", "false"}

\* Faulty variant of durationInDaysValid: zero is let through.
durationInDaysValid_NonNegative(d, optional) ==
  \/ optional /\ d.kind = "undefined"
  \/ d.kind = "int" /\ d.value >= 0

\* z.number().int().positive(), with .optional() in updateModuleSchema.
durationInDaysValid(d, optional) ==
  \/ optional /\ d.kind = "undefined"
  \/ d.kind = "int" /\ d.value > 0

\* validate(schema): a ZodError becomes ApiError('Validation error', 400)
\* and the controller is not reached.
ValidationError(op) == Err(op, 400, "Validation error")

\* !price in JavaScript: undefined, null and 0 are all falsy.
NoPrice(price) == price \in {Absent, Null, 0}

\* POST /modules: validate(createModuleSchema), then
\* ModuleService.createModule(req.body).
createModule(courseFound, durationInDays, status, isStandaloneCourse, price) ==
  /\ Len(modules) < MaxModules
  /\ IF ~durationInDaysValid(durationInDays, FALSE)
       THEN /\ response' = ValidationError("createModule")
            /\ UNCHANGED modules
       ELSE IF ~courseFound
       THEN /\ response' = Err("createModule", 404, "Course not found")
            /\ UNCHANGED modules
       ELSE /\ modules' = Append(modules,
                 [courseId |-> 1,
                  status |-> IF status = "undefined" THEN "DRAFT" ELSE status,
                  isDeleted |-> FALSE,
                  durationInDays |-> durationInDays.value,
                  hasContent |-> FALSE,
                  isStandaloneCourse |-> (isStandaloneCourse = "true"),
                  price |-> IF price = Absent THEN Null ELSE price])
            /\ response' = Ok("createModule")
  /\ UNCHANGED <<enrollments, payments, pending, notifications, now, modulesToUnlock>>
  /\ UNCHANGED <<quizVars, httpVars, platformVars>>

\* PUT /modules/:id: validate(updateModuleSchema), then
\* ModuleService.updateModule(id, req.body); fields left out of the body keep
\* their stored values.
updateModule(id, durationInDays, status, isStandaloneCourse, price) ==
  /\ IF ~durationInDaysValid(durationInDays, TRUE)
       THEN /\ response' = ValidationError("updateModule")
            /\ UNCHANGED modules
       ELSE IF ~ModuleFound(id)
       THEN /\ response' = Err("updateModule", 404, "Module not found")
            /\ UNCHANGED modules
       ELSE IF isStandaloneCourse = "true" /\ price = Absent /\ NoPrice(modules[id].price)
       THEN /\ response' = Err("updateModule", 400, "Price is required for standalone courses")
            /\ UNCHANGED modules
       ELSE /\ modules' = [modules EXCEPT ![id] =
                 [@ EXCEPT
                    !.durationInDays = IF durationInDays.kind = "undefined" THEN @
                                       ELSE durationInDays.value,
                    !.status = IF status = "undefined" THEN @ ELSE status,
                    !.isStandaloneCourse = IF isStandaloneCourse = "undefined" THEN @
                                           ELSE isStandaloneCourse = "true",
                    !.price = IF price = Absent THEN @ ELSE price]]
            /\ response' = Ok("updateModule")
  /\ UNCHANGED <<enrollments, payments, pending, notifications, now, modulesToUnlock>>
  /\ UNCHANGED <<quizVars, httpVars, platformVars>>

\* PATCH /modules/:id/standalone: ModuleService.toggleStandaloneCourse.
toggleStandaloneCourse(id, isStandalone, price) ==
  /\ IF ~ModuleFound(id)
       THEN /\ response' = Err("toggleStandaloneCourse", 404, "Module not found")
            /\ UNCHANGED modules
       ELSE IF isStandalone /\ NoPrice(price) /\ NoPrice(modules[id].price)
       THEN /\ response' = Err("toggleStandaloneCourse", 400, "Price is required for standalone courses")
            /\ UNCHANGED modules
       ELSE /\ modules' = [modules EXCEPT ![id] =
                 [@ EXCEPT !.isStandaloneCourse = isStandalone,
                           !.price = IF price = Absent THEN @ ELSE price]]
            /\ response' = Ok("toggleStandaloneCourse")
  /\ UNCHANGED <<enrollments, payments, pending, notifications, now, modulesToUnlock>>
  /\ UNCHANGED <<quizVars, httpVars, platformVars>>

\* POST /quizzes for a module: QuizService.createQuiz stores a quiz row of
\* the module, which is what isReadyToActivate counts.
createModuleQuiz(id) ==
  /\ IF ~ModuleFound(id)
       THEN /\ response' = Err("createQuiz", 404, "Module not found")
            /\ UNCHANGED modules
       ELSE /\ modules' = [modules EXCEPT ![id].hasContent = TRUE]
            /\ response' = Ok("createQuiz")
  /\ UNCHANGED <<enrollments, payments, pending, notifications, now, modulesToUnlock>>
  /\ UNCHANGED <<quizVars, httpVars, platformVars>>

InitModule ==
  /\ InitCourseEmpty
  /\ InitPlatformEmpty
  /\ InitQuizEmpty
  /\ InitHttpEmpty
  /\ response = Ok("none")

NextModule ==
  \/ \E courseFound \in BOOLEAN, d \in DurationInputs, st \in StatusInputs,
        sa \in StandaloneInputs, p \in PriceInputs :
       createModule(courseFound, d, st, sa, p)
  \/ \E id \in 1..MaxModules, d \in DurationInputs, st \in StatusInputs,
        sa \in StandaloneInputs, p \in PriceInputs :
       updateModule(id, d, st, sa, p)
  \/ \E id \in 1..MaxModules, st \in ModuleStatuses : updateModuleStatus(id, st)
  \/ \E id \in 1..MaxModules, sa \in BOOLEAN, p \in PriceInputs :
       toggleStandaloneCourse(id, sa, p)
  \/ \E id \in 1..MaxModules : createModuleQuiz(id)
  \/ \E id \in 1..MaxModules : deleteModule(id)

SpecModule == InitModule /\ [][NextModule]_vars

\* C21: a create or update request whose durationInDays is not a positive
\* integer is answered 400 'Validation error' and changes no module, and
\* every stored module has a positive durationInDays.
C21_DurationInDaysPositive ==
  /\ [](\A i \in DOMAIN modules : modules[i].durationInDays > 0)
  /\ [][/\ \A courseFound \in BOOLEAN, d \in DurationInputs, st \in StatusInputs,
             sa \in StandaloneInputs, p \in PriceInputs :
             (createModule(courseFound, d, st, sa, p)
                /\ ~(d.kind = "int" /\ d.value > 0))
               => (modules' = modules /\ response'.status = 400
                     /\ response'.message = "Validation error")
        /\ \A id \in 1..MaxModules, d \in DurationInputs, st \in StatusInputs,
             sa \in StandaloneInputs, p \in PriceInputs :
             (updateModule(id, d, st, sa, p)
                /\ d.kind # "undefined" /\ ~(d.kind = "int" /\ d.value > 0))
               => (modules' = modules /\ response'.status = 400
                     /\ response'.message = "Validation error")]_vars

\* A stored module after a rejected request.
C21_Witness ==
  /\ Len(modules) = 1
  /\ modules[1].durationInDays > 0
  /\ response.status = 400
  /\ response.message = "Validation error"
  /\ response.op = "updateModule"

\* ---------------------------------------------------------------------
\* Question editing: POST /quizzes/:id/questions and PUT /questions/:id with
\* option lists of two and three entries.
\* ---------------------------------------------------------------------

QuestionOptionCounts == {2, 3}
QuestionIndexInputs == {0 - 3, 0, 1, 2, 3}
QuestionPointInputs == {5, 10}

InitQuestion ==
  /\ quiz = [state |-> "active", passingScore |-> 50]
  /\ questions = <<>>
  /\ attempts = <<>>
  /\ InitCourseEmpty
  /\ InitPlatformEmpty
  /\ InitHttpEmpty
  /\ response = Ok("none")

NextQuestion ==
  \/ \E n \in QuestionOptionCounts, c \in QuestionIndexInputs, p \in QuestionPointInputs :
       createQuizQuestion(n, c, p)
  \/ \E id \in QuestionIds, n \in QuestionOptionCounts \cup {Absent},
        c \in QuestionIndexInputs \cup {Absent}, p \in QuestionPointInputs \cup {Absent} :
       updateQuizQuestion(id, n, c, p)

SpecQuestion == InitQuestion /\ [][NextQuestion]_vars

\* The option count and index a question would have after the update.
UpdatedNumOptions(id, n) == IF n = Absent THEN questions[id].numOptions ELSE n
UpdatedIndex(id, c) == IF c = Absent THEN questions[id].correctOptionIndex ELSE c

\* C22: every stored question has 0 <= correctOptionIndex < length(options),
\* and a create or update that would leave an index outside its options is
\* answered 400 and leaves the questions as they were.
C22_CorrectOptionIndexInRange ==
  /\ [](\A i \in DOMAIN questions :
          /\ 0 <= questions[i].correctOptionIndex
          /\ questions[i].correctOptionIndex < questions[i].numOptions)
  /\ [][/\ \A n \in QuestionOptionCounts, c \in QuestionIndexInputs,
             p \in QuestionPointInputs :
             (createQuizQuestion(n, c, p) /\ ~(0 <= c /\ c < n))
               => (questions' = questions /\ response'.status = 400)
        /\ \A id \in QuestionIds, n \in QuestionOptionCounts \cup {Absent},
             c \in QuestionIndexInputs \cup {Absent},
             p \in QuestionPointInputs \cup {Absent} :
             (/\ updateQuizQuestion(id, n, c, p)
              /\ QuestionFound(id)
              /\ ~(0 <= UpdatedIndex(id, c) /\ UpdatedIndex(id, c) < UpdatedNumOptions(id, n)))
               => (questions' = questions /\ response'.status = 400)]_vars

\* A question whose third option is the correct one, after an update that
\* tried to cut the options to two.
C22_Witness ==
  /\ Len(questions) >= 1
  /\ questions[1].numOptions = 3
  /\ questions[1].correctOptionIndex = 2
  /\ response.op = "updateQuizQuestion"
  /\ response.status = 400

\* The module is new or was not ACTIVE, and is ACTIVE after the step.
BecomesActive(i) ==
  /\ i \in DOMAIN modules'
  /\ modules'[i].status = "ACTIVE"
  /\ (i \in DOMAIN modules => modules[i].status # "ACTIVE")

\* C23: a step of createModule, updateModule or updateModuleStatus makes a
\* module ACTIVE only if the module has a content item or a quiz, and an
\* activation answered 400 changes no module and sends no notification.
C23_ActiveOnlyWhenReady ==
  [][/\ \A i \in 1..MaxModules : BecomesActive(i) => modules'[i].hasContent
     /\ (response'.op = "updateModuleStatus" /\ response'.status = 400)
          => (modules' = modules /\ notifications' = notifications)]_vars

\* Every standalone module has a price that is neither null nor zero.
StandalonePriced(ms) ==
  \A i \in DOMAIN ms : ms[i].isStandaloneCourse => ms[i].price \notin {Null, 0}

\* C24: a step of updateModule or toggleStandaloneCourse taken where every
\* standalone module has a non-null, non-zero price ends where that is still
\* so, and a 400 answer of either changes no module.
C24_StandaloneHasPrice ==
  [][(response'.op \in {"updateModule", "toggleStandaloneCourse"})
       => /\ StandalonePriced(modules) => StandalonePriced(modules')
          /\ response'.status = 400 => modules' = modules]_vars

\* ---------------------------------------------------------------------
\* Course catalogue: POST /courses, PUT /courses/:id,
\* PATCH /courses/:id/publish.
\* ---------------------------------------------------------------------

MaxCourses == 1
MaxClock == 301

\* The instants, in seconds, at which requests are observed.
ClockValues == {t \in {0, 1, 300, 301, 302} : t <= MaxClock}

\* Time passes between two requests.
TickClock ==
  /\ \E t \in ClockValues : t > clock /\ clock' = t
  /\ UNCHANGED <<courses, accounts, issued, resetIssued, resetUsed, resetHits, inflight>>
  /\ UNCHANGED <<quizVars, courseVars, httpVars, response>>

PublishInputs == {"undefined", "true", "false"}

\* CourseService.getCourseById: the row, unless soft-deleted.
CourseFound(id) == id \in DOMAIN courses /\ ~courses[id].isDeleted

\* CourseService.createCourse: the row is stored as sent; publishedAt is
\* left to its default.
createCourse(isPublished) ==
  /\ Len(courses) < MaxCourses
  /\ courses' = Append(courses,
       [isPublished |-> (isPublished = "true"), publishedAt |-> Null,
        hasReadyModules |-> FALSE, isDeleted |-> FALSE])
  /\ response' = Ok("createCourse")
  /\ UNCHANGED <<clock, accounts, issued, resetIssued, resetUsed, resetHits, inflight>>
  /\ UNCHANGED <<quizVars, courseVars, httpVars>>

\* A module with content is added to the course (what isReadyToPublish
\* looks for).
addReadyModule(id) ==
  /\ CourseFound(id)
  /\ courses' = [courses EXCEPT ![id].hasReadyModules = TRUE]
  /\ response' = Ok("createModule")
  /\ UNCHANGED <<clock, accounts, issued, resetIssued, resetUsed, resetHits, inflight>>
  /\ UNCHANGED <<quizVars, courseVars, httpVars>>

\* CourseService.updateCourse: the data of the request, and
\* publishedAt: new Date() whenever data.isPublished === true.
CourseServiceUpdateCourse(row, isPublished, t) ==
  [row EXCEPT !.isPublished = IF isPublished = "undefined" THEN @ ELSE isPublished = "true",
              !.publishedAt = IF isPublished = "true" THEN t ELSE @]

\* PUT /courses/:id.
updateCourse(id, isPublished) ==
  /\ IF ~CourseFound(id)
       THEN /\ response' = Err("updateCourse", 404, "Course not found")
            /\ UNCHANGED courses
       ELSE /\ courses' = [courses EXCEPT
                 ![id] = CourseServiceUpdateCourse(@, isPublished, clock)]
            /\ response' = Ok("updateCourse")
  /\ UNCHANGED <<clock, accounts, issued, resetIssued, resetUsed, resetHits, inflight>>
  /\ UNCHANGED <<quizVars, courseVars, httpVars>>

\* PATCH /courses/:id/publish.
publishCourse(id, isPublished) ==
  /\ IF ~CourseFound(id)
       THEN /\ response' = Err("publishCourse", 404, "Course not found")
            /\ UNCHANGED courses
       ELSE IF isPublished /\ ~courses[id].isPublished /\ ~courses[id].hasReadyModules
       THEN /\ response' = Err("publishCourse", 400, "Course not ready to be published")
            /\ UNCHANGED courses
       ELSE /\ courses' = [courses EXCEPT
                 ![id] = CourseServiceUpdateCourse(@, IF isPublished THEN "true" ELSE "false", clock)]
            /\ response' = Ok("publishCourse")
  /\ UNCHANGED <<clock, accounts, issued, resetIssued, resetUsed, resetHits, inflight>>
  /\ UNCHANGED <<quizVars, courseVars, httpVars>>

\* DELETE /courses/:id: soft delete.
deleteCourse(id) ==
  /\ IF ~CourseFound(id)
       THEN /\ response' = Err("deleteCourse", 404, "Course not found")
            /\ UNCHANGED courses
       ELSE /\ courses' = [courses EXCEPT ![id].isDeleted = TRUE]
            /\ response' = Ok("deleteCourse")
  /\ UNCHANGED <<clock, accounts, issued, resetIssued, resetUsed, resetHits, inflight>>
  /\ UNCHANGED <<quizVars, courseVars, httpVars>>

InitCatalogue ==
  /\ InitQuizEmpty
  /\ InitCourseEmpty
  /\ InitHttpEmpty
  /\ InitPlatformEmpty
  /\ response = Ok("none")

NextCatalogue ==
  \/ \E p \in PublishInputs : createCourse(p)
  \/ \E id \in 1..MaxCourses : addReadyModule(id)
  \/ \E id \in 1..MaxCourses, p \in PublishInputs : updateCourse(id, p)
  \/ \E id \in 1..MaxCourses, p \in BOOLEAN : publishCourse(id, p)
  \/ \E id \in 1..MaxCourses : deleteCourse(id)
  \/ TickClock

SpecCatalogue == InitCatalogue /\ [][NextCatalogue]_vars

\* C25: a step of updateCourse or publishCourse on a course that is
\* published and has its publishedAt, and that stays published, leaves
\* publishedAt as it was.
C25_PublishedAtSetOnce ==
  [][\A i \in DOMAIN courses :
       (/\ response'.op \in {"updateCourse", "publishCourse"}
        /\ courses[i].isPublished
        /\ courses[i].publishedAt # Null
        /\ courses'[i].isPublished)
         => courses'[i].publishedAt = courses[i].publishedAt]_vars

\* ---------------------------------------------------------------------
\* Accounts and tokens: POST /auth/forgot-password, POST /auth/reset-password.
\* ---------------------------------------------------------------------

MaxResetIssued == 2

\* jwt.sign(payload, secret, {expiresIn: '5m'}), in seconds.
JwtExpiresIn == 300

\* resetPasswordExpire: Date.now() + 3600000, in seconds.
ResetPasswordExpireIn == 3600

PasswordResetRateLimitMax == 3

Passwords == {"Passw0rd-A", "Passw0rd-B"}

\* resetPasswordToken: null.
NoToken == [sub |-> 0, type |-> "none", iat |-> 0]

\* A string that is not a token signed with the secret.
ForgedToken == [sub |-> 1, type |-> "forged", iat |-> 0]

\* jwt.sign of {sub, type}: the library adds iat, the second of signing, and
\* exp = iat + expiresIn; header, payload and HMAC hold nothing else, so the
\* string is a function of user, type and second.
generateToken(userId, type, t) == [sub |-> userId, type |-> type, iat |-> t]

\* jwt.verify: the signature is right and exp has not been reached.
verifyToken(token, t) == token.type # "forged" /\ t < token.iat + JwtExpiresIn

\* A user row as register leaves it.
NewAccount(email, role) ==
  [email |-> email, password |-> "Passw0rd-A", role |-> role, status |-> "ACTIVE",
   isVerified |-> FALSE, isDeleted |-> FALSE,
   resetPasswordToken |-> NoToken, resetPasswordExpire |-> Null]

\* prisma.user.findUnique({where: {email}}): the ids of the rows found.
AccountsByEmail(email) == {i \in DOMAIN accounts : accounts[i].email = email}

Reply(op, status, message) == [op |-> op, status |-> status, message |-> message, ids |-> <<>>]

\* express-rate-limit of passwordResetRateLimiter: the counter of the
\* client in the running window, and the verdict on the counted request.
CountResetRequest(h) == IF h <= PasswordResetRateLimitMax THEN h + 1 ELSE h
ResetRateLimited(h) == h > PasswordResetRateLimitMax

\* Faulty variant of forgotPasswordReply: an unknown e-mail is answered 404.
forgotPasswordReply_NotFound(email) ==
  IF AccountsByEmail(email) = {}
    THEN Reply("forgotPassword", 404, "User not found")
    ELSE Reply("forgotPassword", 200,
               "If a user with that email exists, a password reset link has been sent")

\* What the forgotPassword handler sends: ApiResponse.success with data null
\* and the same message on both branches.
forgotPasswordReply(email) ==
  IF AccountsByEmail(email) = {}
    THEN Reply("forgotPassword", 200,
               "If a user with that email exists, a password reset link has been sent")
    ELSE Reply("forgotPassword", 200,
               "If a user with that email exists, a password reset link has been sent")

\* What the client of POST /auth/forgot-password receives in this state.
forgotPasswordResponse(email) ==
  IF ~RateLimitSkipped /\ ResetRateLimited(CountResetRequest(resetHits))
    THEN Reply("forgotPassword", 429, "Too many password reset attempts, please try again later.")
    ELSE forgotPasswordReply(email)

\* POST /auth/forgot-password: passwordResetRateLimiter, validate, forgotPassword.
forgotPassword(email) ==
  LET h == IF RateLimitSkipped THEN resetHits ELSE CountResetRequest(resetHits)
      found == AccountsByEmail(email)
  IN  /\ resetHits' = h
      /\ response' = forgotPasswordResponse(email)
      /\ IF (~RateLimitSkipped /\ ResetRateLimited(h)) \/ found = {}
           THEN UNCHANGED <<accounts, resetIssued>>
           ELSE LET id == CHOOSE i \in found : TRUE
                    resetToken == generateToken(id, "resetPassword", clock)
                IN  /\ Len(resetIssued) < MaxResetIssued
                    /\ accounts' = [accounts EXCEPT
                         ![id].resetPasswordToken = resetToken,
                         ![id].resetPasswordExpire = clock + ResetPasswordExpireIn]
                    /\ resetIssued' = Append(resetIssued, resetToken)
      /\ UNCHANGED <<courses, clock, issued, resetUsed, inflight>>
      /\ UNCHANGED <<quizVars, courseVars, httpVars>>

\* prisma.user.findFirst({where: {id: decoded.sub, resetPasswordToken: token,
\* resetPasswordExpire: {gt: new Date()}}}).
ResetTokenMatches(token) ==
  /\ token.sub \in DOMAIN accounts
  /\ accounts[token.sub].resetPasswordToken = token
  /\ accounts[token.sub].resetPasswordExpire > clock

\* POST /auth/reset-password.
resetPassword(token, password) ==
  /\ IF ~verifyToken(token, clock)
       THEN /\ response' = Reply("resetPassword", 401, "Invalid or expired token")
            /\ UNCHANGED <<accounts, resetUsed>>
       ELSE IF token.type # "resetPassword"
       THEN /\ response' = Reply("resetPassword", 401, "Invalid token type")
            /\ UNCHANGED <<accounts, resetUsed>>
       ELSE IF ~ResetTokenMatches(token)
       THEN /\ response' = Reply("resetPassword", 401, "Invalid or expired token")
            /\ UNCHANGED <<accounts, resetUsed>>
       ELSE /\ accounts' = [accounts EXCEPT
                 ![token.sub].password = password,
                 ![token.sub].resetPasswordToken = NoToken,
                 ![token.sub].resetPasswordExpire = Null]
            /\ resetUsed' = resetUsed \cup {token}
            /\ response' = Reply("resetPassword", 200, "Password reset successful")
  /\ UNCHANGED <<courses, clock, issued, resetIssued, resetHits, inflight>>
  /\ UNCHANGED <<quizVars, courseVars, httpVars>>

\* The tokens a client can send to reset-password: those mailed so far, and
\* a forged one.
ResetTokenInputs == Range(resetIssued) \cup {ForgedToken}

\* One registered user, a@example.com; b@example.com belongs to nobody.
InitReset ==
  /\ InitQuizEmpty
  /\ InitCourseEmpty
  /\ InitHttpEmpty
  /\ courses = <<>>
  /\ clock = 0
  /\ accounts = <<NewAccount("a@example.com", "USER")>>
  /\ issued = {}
  /\ resetIssued = <<>>
  /\ resetUsed = {}
  /\ resetHits = 0
  /\ inflight = {}
  /\ response = Ok("none")

NextReset ==
  \/ \E email \in Emails : forgotPassword(email)
  \/ \E token \in ResetTokenInputs, password \in Passwords : resetPassword(token, password)
  \/ TickClock

SpecReset == InitReset /\ [][NextReset]_vars

\* The token was mailed by a forgotPassword that was followed by another
\* forgotPassword for the same user.
Superseded(token) ==
  \E k \in 1..(Len(resetIssued) - 1) : resetIssued[k] = token

\* C26: a resetPassword with a token that has already reset a password, or
\* with a token mailed by a forgotPassword that was followed by another one,
\* is answered 401 and leaves the password unchanged.
C26_ResetTokenSingleUse ==
  [][\A token \in ResetTokenInputs, password \in Passwords :
       (resetPassword(token, password) /\ (token \in resetUsed \/ Superseded(token)))
         => (response'.status = 401 /\ accounts' = accounts)]_vars

\* C28: in every state, the answer to forgotPassword is the same for an
\* e-mail that belongs to a user and for one that does not.
C28_ForgotPasswordSameAnswer ==
  \A e1, e2 \in Emails : forgotPasswordResponse(e1) = forgotPasswordResponse(e2)

\* Two forgotPassword requests were counted, one of them mailed a token and
\* the other was for an e-mail without account.
C28_Witness ==
  /\ response.op = "forgotPassword"
  /\ response.status = 200
  /\ resetHits = 2
  /\ Len(resetIssued) = 1
  /\ AccountsByEmail("b@example.com") = {}
  /\ AccountsByEmail("a@example.com") # {}

\* ---------------------------------------------------------------------
\* Sessions and account status: POST /auth/login, POST /auth/refresh-token,
\* GET /auth/me, PATCH /users/:id/status, DELETE /users/:id.
\* ---------------------------------------------------------------------

MaxIssued == 4

UserStatuses == {"ACTIVE", "SUSPENDED", "INACTIVE"}

\* generateAuthTokens(user) at second t.
generateAuthTokens(id, t) ==
  {generateToken(id, "access", t), generateToken(id, "refresh", t)}

\* Faulty variant of authenticate: the status of the user is not looked at.
authenticate_AnyStatus(token) ==
  IF token = NoToken
    THEN [ok |-> FALSE,
          reply |-> [Reply("authenticate", 401, "Authentication required") EXCEPT !.ids = <<>>]]
  ELSE IF ~verifyToken(token, clock)
    THEN [ok |-> FALSE,
          reply |-> [Reply("authenticate", 401, "Invalid token") EXCEPT !.ids = <<token.sub>>]]
  ELSE IF token.type # "access"
    THEN [ok |-> FALSE,
          reply |-> [Reply("authenticate", 401, "Invalid token type") EXCEPT !.ids = <<token.sub>>]]
  ELSE IF token.sub \notin DOMAIN accounts
    THEN [ok |-> FALSE,
          reply |-> [Reply("authenticate", 401, "User not found or inactive")
                       EXCEPT !.ids = <<token.sub>>]]
  ELSE [ok |-> TRUE,
        reply |-> [Reply("authenticate", 200, "ok") EXCEPT !.ids = <<token.sub>>]]

\* The authenticate middleware: its 401 answer, or ok with req.user set to
\* the user of the token. NoToken stands for a request without Bearer header.
authenticate(token) ==
  IF token = NoToken
    THEN [ok |-> FALSE,
          reply |-> [Reply("authenticate", 401, "Authentication required") EXCEPT !.ids = <<>>]]
  ELSE IF ~verifyToken(token, clock)
    THEN [ok |-> FALSE,
          reply |-> [Reply("authenticate", 401, "Invalid token") EXCEPT !.ids = <<token.sub>>]]
  ELSE IF token.type # "access"
    THEN [ok |-> FALSE,
          reply |-> [Reply("authenticate", 401, "Invalid token type") EXCEPT !.ids = <<token.sub>>]]
  ELSE IF token.sub \notin DOMAIN accounts \/ accounts[token.sub].status # "ACTIVE"
    THEN [ok |-> FALSE,
          reply |-> [Reply("authenticate", 401, "User not found or inactive")
                       EXCEPT !.ids = <<token.sub>>]]
  ELSE [ok |-> TRUE,
        reply |-> [Reply("authenticate", 200, "ok") EXCEPT !.ids = <<token.sub>>]]

\* adminOnly behind authenticate.
adminOnly(token) == accounts[token.sub].role = "ADMIN"

Forbidden(op) == Reply(op, 403, "Not authorized to access this resource")

\* UserService.getUserById: the row, unless soft-deleted.
UserFound(id) == id \in DOMAIN accounts /\ ~accounts[id].isDeleted

\* GET /auth/me: authenticate, getCurrentUser.
getCurrentUser(token) ==
  /\ response' = authenticate(token).reply
  /\ UNCHANGED platformVars
  /\ UNCHANGED <<quizVars, courseVars, httpVars>>

\* POST /auth/login: authRateLimiter, validate(loginSchema), login;
\* passwordValid is the verdict of comparePassword.
loginAccount(email, passwordValid) ==
  LET h == IF RateLimitSkipped THEN rateHits ELSE CountRequest(rateHits)
      found == AccountsByEmail(email)
      id == CHOOSE i \in found : TRUE
  IN  /\ rateHits' = h
      /\ IF ~RateLimitSkipped /\ RateLimited(h)
           THEN /\ response' = Reply("login", 429,
                      "Too many authentication attempts, please try again later.")
                /\ UNCHANGED issued
           ELSE IF found = {}
           THEN /\ response' = Reply("login", 401, "Invalid email or password")
                /\ UNCHANGED issued
           ELSE IF accounts[id].status # "ACTIVE"
           THEN /\ response' = [Reply("login", 401, "Your account is not active")
                                  EXCEPT !.ids = <<id>>]
                /\ UNCHANGED issued
           ELSE IF ~passwordValid
           THEN /\ response' = [Reply("login", 401, "Invalid email or password")
                                  EXCEPT !.ids = <<id>>]
                /\ UNCHANGED issued
           ELSE /\ issued' = issued \cup generateAuthTokens(id, clock)
                /\ Cardinality(issued') <= MaxIssued
                /\ response' = [Reply("login", 200, "Login successful") EXCEPT !.ids = <<id>>]
      /\ UNCHANGED <<courses, clock, accounts, resetIssued, resetUsed, resetHits, inflight>>
      /\ UNCHANGED <<users, nodeEnv>>
      /\ UNCHANGED <<quizVars, courseVars>>

\* POST /auth/refresh-token.
refreshToken(token) ==
  /\ IF ~verifyToken(token, clock)
       THEN /\ response' = [Reply("refreshToken", 401, "Invalid or expired refresh token")
                              EXCEPT !.ids = <<token.sub>>]
            /\ UNCHANGED issued
       ELSE IF token.type # "refresh"
       THEN /\ response' = [Reply("refreshToken", 401, "Invalid token type")
                              EXCEPT !.ids = <<token.sub>>]
            /\ UNCHANGED issued
       ELSE IF token.sub \notin DOMAIN accounts \/ accounts[token.sub].status # "ACTIVE"
       THEN /\ response' = [Reply("refreshToken", 401, "User not found or inactive")
                              EXCEPT !.ids = <<token.sub>>]
            /\ UNCHANGED issued
       ELSE /\ issued' = issued \cup generateAuthTokens(token.sub, clock)
            /\ Cardinality(issued') <= MaxIssued
            /\ response' = [Reply("refreshToken", 200, "Tokens refreshed successfully")
                              EXCEPT !.ids = <<token.sub>>]
  /\ UNCHANGED <<courses, clock, accounts, resetIssued, resetUsed, resetHits, inflight>>
  /\ UNCHANGED <<quizVars, courseVars, httpVars>>

\* The row NotificationService.sendNotification creates for an account.
AccountNotification(id) == [userId |-> id, moduleId |-> 0, type |-> "ADMIN_ANNOUNCEMENT"]

\* PATCH /users/:id/status: authenticate, adminOnly, validate, updateUserStatus.
updateUserStatus(token, id, status) ==
  /\ IF ~authenticate(token).ok
       THEN /\ response' = authenticate(token).reply
            /\ UNCHANGED <<accounts, notifications>>
       ELSE IF ~adminOnly(token)
       THEN /\ response' = Forbidden("updateUserStatus")
            /\ UNCHANGED <<accounts, notifications>>
       ELSE IF ~UserFound(id)
       THEN /\ response' = Reply("updateUserStatus", 404, "User not found")
            /\ UNCHANGED <<accounts, notifications>>
       ELSE /\ accounts' = [accounts EXCEPT ![id].status = status]
            /\ notifications' =
                 IF status = "SUSPENDED" \/ (status = "ACTIVE" /\ accounts[id].status # "ACTIVE")
                   THEN Append(notifications, AccountNotification(id))
                   ELSE notifications
            /\ Len(notifications') <= MaxNotifications
            /\ response' = Reply("updateUserStatus", 200, "User status updated successfully")
  /\ UNCHANGED <<courses, clock, issued, resetIssued, resetUsed, resetHits, inflight>>
  /\ UNCHANGED <<modules, enrollments, payments, pending, now, modulesToUnlock>>
  /\ UNCHANGED <<quizVars, httpVars>>

\* DELETE /users/:id: authenticate, adminOnly, deleteUser.
deleteUser(token, id) ==
  /\ IF ~authenticate(token).ok
       THEN /\ response' = authenticate(token).reply
            /\ UNCHANGED accounts
       ELSE IF ~adminOnly(token)
       THEN /\ response' = Forbidden("deleteUser")
            /\ UNCHANGED accounts
       ELSE IF ~UserFound(id)
       THEN /\ response' = Reply("deleteUser", 404, "User not found")
            /\ UNCHANGED accounts
       ELSE /\ accounts' = [accounts EXCEPT ![id].isDeleted = TRUE,
                                             ![id].status = "INACTIVE"]
            /\ response' = Reply("deleteUser", 200, "User deleted successfully")
  /\ UNCHANGED <<courses, clock, issued, resetIssued, resetUsed, resetHits, inflight>>
  /\ UNCHANGED <<quizVars, courseVars, httpVars>>

\* What a client can put in the Authorization header or in the body of
\* refresh-token: a token handed out earlier, a forged one, or nothing.
TokenInputs == issued \cup {ForgedToken, NoToken}

\* Two registered users: a@example.com with role USER, b@example.com with
\* role ADMIN.
InitAccess ==
  /\ InitQuizEmpty
  /\ InitCourseEmpty
  /\ InitHttpEmpty
  /\ courses = <<>>
  /\ clock = 0
  /\ accounts = <<NewAccount("a@example.com", "USER"), NewAccount("b@example.com", "ADMIN")>>
  /\ issued = {}
  /\ resetIssued = <<>>
  /\ resetUsed = {}
  /\ resetHits = 0
  /\ inflight = {}
  /\ response = Ok("none")

NextAccess ==
  \/ \E email \in Emails, passwordValid \in BOOLEAN : loginAccount(email, passwordValid)
  \/ \E token \in TokenInputs : getCurrentUser(token)
  \/ \E token \in TokenInputs \ {NoToken} : refreshToken(token)
  \/ \E token \in TokenInputs, status \in UserStatuses : updateUserStatus(token, 1, status)
  \/ \E token \in TokenInputs : deleteUser(token, 1)
  \/ rateLimitWindowEnds
  \/ TickClock

SpecAccess == InitAccess /\ [][NextAccess]_vars

\* C27: a request that reached authenticate, login or refreshToken for a user
\* whose status is not ACTIVE has been answered 401.
C27_InactiveUserRejected ==
  (/\ response.op \in {"authenticate", "login", "refreshToken"}
   /\ response.status # 429
   /\ response.ids # <<>>
   /\ response.ids[1] \in DOMAIN accounts
   /\ accounts[response.ids[1]].status # "ACTIVE")
    => response.status = 401

\* A suspended user presents an access token that was issued while the
\* user was ACTIVE and has not expired.
C27_Witness ==
  /\ accounts[1].status = "SUSPENDED"
  /\ response.op = "authenticate"
  /\ response.ids = <<1>>
  /\ response.message = "User not found or inactive"
  /\ \E t \in issued : t.sub = 1 /\ t.type = "access" /\ verifyToken(t, clock)

\* ---------------------------------------------------------------------
\* User administration: PUT /users/:id, PATCH /users/:id/status,
\* DELETE /users/:id.
\* ---------------------------------------------------------------------

AccountIds == {1, 2}

\* Bodies of PUT /users/:id: the profile fields of updateUserProfileSchema
\* (not modelled, they are free text) and any of the keys role, status,
\* email, isVerified, which the schema does not name.
ProfileBodies ==
  [role : {"undefined", "ADMIN"}, status : {"undefined", "SUSPENDED"},
   email : {"undefined", "c@example.com"}, isVerified : {"undefined", "true"}]

\* prisma.user.update({where: {id}, data}): every key of data is written.
UpdatedAccount(row, data) ==
  [row EXCEPT !.role = IF data.role = "undefined" THEN @ ELSE data.role,
              !.status = IF data.status = "undefined" THEN @ ELSE data.status,
              !.email = IF data.email = "undefined" THEN @ ELSE data.email,
              !.isVerified = IF data.isVerified = "undefined" THEN @ ELSE TRUE]

\* User.email @unique: another row already holds the e-mail of data.
EmailTaken(id, data) ==
  \E j \in DOMAIN accounts : j # id /\ accounts[j].email = data.email

\* PUT /users/:id: authenticate, validate(updateUserProfileSchema),
\* updateUserProfile. validate parses a copy and leaves req.body as sent;
\* req.path of this route never contains '/admin'.
updateUserProfile(token, id, body) ==
  /\ IF ~authenticate(token).ok
       THEN /\ response' = authenticate(token).reply
            /\ UNCHANGED accounts
       ELSE IF ~UserFound(id)
       THEN /\ response' = Reply("updateUserProfile", 404, "User not found")
            /\ UNCHANGED accounts
       ELSE IF ~(accounts[token.sub].role = "ADMIN" \/ token.sub = id)
       THEN /\ response' = Reply("updateUserProfile", 403, "Not authorized to update this user")
            /\ UNCHANGED accounts
       ELSE IF EmailTaken(id, body)
       THEN /\ response' = Reply("updateUserProfile", 409, "Duplicate value for a unique field")
            /\ UNCHANGED accounts
       ELSE /\ accounts' = [accounts EXCEPT ![id] = UpdatedAccount(@, body)]
            /\ response' = Reply("updateUserProfile", 200, "User profile updated successfully")
  /\ UNCHANGED <<courses, clock, issued, resetIssued, resetUsed, resetHits, inflight>>
  /\ UNCHANGED <<quizVars, courseVars, httpVars>>

\* Both users are registered and have logged in at second 0.
InitUsers ==
  /\ InitQuizEmpty
  /\ InitCourseEmpty
  /\ InitHttpEmpty
  /\ courses = <<>>
  /\ clock = 0
  /\ accounts = <<NewAccount("a@example.com", "USER"), NewAccount("b@example.com", "ADMIN")>>
  /\ issued = generateAuthTokens(1, 0) \cup generateAuthTokens(2, 0)
  /\ resetIssued = <<>>
  /\ resetUsed = {}
  /\ resetHits = 0
  /\ inflight = {}
  /\ response = Ok("none")

NextUsers ==
  \/ \E token \in TokenInputs, id \in AccountIds, body \in ProfileBodies :
       updateUserProfile(token, id, body)
  \/ \E token \in TokenInputs, id \in AccountIds, status \in UserStatuses :
       updateUserStatus(token, id, status)
  \/ \E token \in TokenInputs, id \in AccountIds : deleteUser(token, id)

SpecUsers == InitUsers /\ [][NextUsers]_vars

\* role, status, email and isVerified of every user row.
ProtectedFields(accs) ==
  [i \in DOMAIN accs |->
     <<accs[i].role, accs[i].status, accs[i].email, accs[i].isVerified>>]

\* The request carries a valid access token of a user whose role is USER.
RequestByUser(token) ==
  authenticate(token).ok /\ accounts[token.sub].role = "USER"

\* C29: a request authenticated as a user whose role is USER leaves role,
\* status, email and isVerified of every user row unchanged.
C29_UserCannotChangeProtectedFields ==
  [][/\ \A token \in TokenInputs, id \in AccountIds, body \in ProfileBodies :
          (updateUserProfile(token, id, body) /\ RequestByUser(token))
            => ProtectedFields(accounts') = ProtectedFields(accounts)
     /\ \A token \in TokenInputs, id \in AccountIds, status \in UserStatuses :
          (updateUserStatus(token, id, status) /\ RequestByUser(token))
            => ProtectedFields(accounts') = ProtectedFields(accounts)
     /\ \A token \in TokenInputs, id \in AccountIds :
          (deleteUser(token, id) /\ RequestByUser(token))
            => ProtectedFields(accounts') = ProtectedFields(accounts)]_vars

\* ---------------------------------------------------------------------
\* Concurrent PUT /questions/:id: each request awaits findUnique, checks
\* what it read, and then awaits update; other requests run in between.
\* ---------------------------------------------------------------------

MaxInflight == 2

\* The two shapes of the requests: options alone, correctOptionIndex alone.
ConcurrentUpdates ==
  [id : {1}, numOptions : QuestionOptionCounts, correctOptionIndex : {Absent}]
    \cup [id : {1}, numOptions : {Absent}, correctOptionIndex : {0, 1, 2}]

\* updateQuizQuestion up to its prisma.quizQuestion.update: findUnique and
\* the checks against the row that was read.
readQuizQuestion(req) ==
  /\ req \notin inflight
  /\ Cardinality(inflight) < MaxInflight
  /\ IF ~QuestionFound(req.id)
       THEN /\ response' = Err("updateQuizQuestion", 404, "Question not found")
            /\ UNCHANGED inflight
       ELSE IF \/ /\ req.numOptions # Absent
                  /\ req.correctOptionIndex = Absent
                  /\ questions[req.id].correctOptionIndex >= req.numOptions
               \/ /\ req.correctOptionIndex # Absent
                  /\ req.numOptions = Absent
                  /\ (req.correctOptionIndex < 0
                        \/ req.correctOptionIndex >= questions[req.id].numOptions)
       THEN /\ response' = Err("updateQuizQuestion", 400, "Invalid correctOptionIndex")
            /\ UNCHANGED inflight
       ELSE /\ inflight' = inflight \cup {req}
            /\ UNCHANGED response
  /\ UNCHANGED <<courses, clock, accounts, issued, resetIssued, resetUsed, resetHits>>
  /\ UNCHANGED <<quizVars, courseVars, httpVars>>

\* prisma.quizQuestion.update({where: {id}, data}) of a request that has
\* passed its checks: the fields of data are written, the others kept.
writeQuizQuestion(req) ==
  /\ req \in inflight
  /\ questions' = [questions EXCEPT ![req.id] =
       [@ EXCEPT !.numOptions = IF req.numOptions = Absent THEN @ ELSE req.numOptions,
                 !.correctOptionIndex = IF req.correctOptionIndex = Absent THEN @
                                        ELSE req.correctOptionIndex]]
  /\ inflight' = inflight \ {req}
  /\ response' = Ok("updateQuizQuestion")
  /\ UNCHANGED <<quiz, attempts>>
  /\ UNCHANGED <<courses, clock, accounts, issued, resetIssued, resetUsed, resetHits>>
  /\ UNCHANGED <<courseVars, httpVars>>

\* One question whose index lies within its options.
InitConcurrent ==
  /\ quiz = [state |-> "active", passingScore |-> 50]
  /\ questions \in {<<[live |-> TRUE, numOptions |-> n, correctOptionIndex |-> c, points |-> 5]>> :
                      n \in QuestionOptionCounts, c \in {0, 1}}
  /\ attempts = <<>>
  /\ InitCourseEmpty
  /\ InitHttpEmpty
  /\ InitPlatformEmpty
  /\ response = Ok("none")

NextConcurrent ==
  \/ \E req \in ConcurrentUpdates : readQuizQuestion(req)
  \/ \E req \in ConcurrentUpdates : writeQuizQuestion(req)

SpecConcurrent == InitConcurrent /\ [][NextConcurrent]_vars

\* C30: whatever the order in which two updates of one question, one of the
\* options and one of the index, read and write, the stored question has
\* 0 <= correctOptionIndex < length(options).
C30_IndexInRangeUnderInterleaving ==
  \A i \in DOMAIN questions :
    questions[i].live =>
      (0 <= questions[i].correctOptionIndex
         /\ questions[i].correctOptionIndex < questions[i].numOptions)

====
